---- MODULE Spec2Model ----
(***************************************************************************)
(* Configuration resolution of the thunderstorm collector                  *)
(* (go/config.go): compiled-in defaults, template overlay, command-line    *)
(* flags, validation.  Strings that the code inspects character by         *)
(* character (Server) are sequences of one-character strings; strings the  *)
(* code only copies are TLA+ strings.                                      *)
(***************************************************************************)
EXTENDS Integers, Sequences, FiniteSets, TLC

VARIABLES
    env,            \* the process environment: runtime.GOOS and os.Hostname()
    args,           \* os.Args: the program name, then one token per flag
    DefaultConfig,  \* the package-level variable DefaultConfig
    config,         \* the local variable config of ParseConfig
    cfgAt,          \* which storage the name "config" denotes
    pc,             \* position within ParseConfig
    stderr,         \* lines written to os.Stderr, in order
    exitStatus,     \* argument of os.Exit, -1 while the process has not exited
    outcome,        \* terminal outcome of the current call
    steps,          \* history: the statements of ParseConfig executed so far
    flagged,        \* history: the configuration as flags.Parse left it
    run,            \* 1 for the first call, 2 for the repeated call
    first           \* what the first call ended with

vars == <<env, args, DefaultConfig, config, cfgAt, pc, stderr, exitStatus,
          outcome, steps, flagged, run, first>>

----------------------------------------------------------------------------
(* Bounds *)

\* longest run of '/' appended to a Server input
MaxSlashes == 2
\* most occurrences of the repeatable --path flag on one command line
MaxListFlags == 1

----------------------------------------------------------------------------
(* Character strings *)

Slash == <<"/">>
HTTP == <<"h", "t", "t", "p", ":", "/", "/">>
HTTPS == <<"h", "t", "t", "p", "s", ":", "/", "/">>

\* strings.HasPrefix
HasPrefix(s, p) == Len(s) >= Len(p) /\ SubSeq(s, 1, Len(p)) = p

\* strings.HasSuffix
HasSuffix(s, p) == Len(s) >= Len(p) /\ SubSeq(s, Len(s) - Len(p) + 1, Len(s)) = p

\* strings.TrimSuffix: removes the suffix once, if present
TrimSuffix(s, suf) ==
    IF HasSuffix(s, suf) THEN SubSeq(s, 1, Len(s) - Len(suf)) ELSE s

\* index of the first occurrence of character c in s, 0 when absent
IndexOf(s, c) ==
    IF \E i \in 1..Len(s) : s[i] = c
    THEN CHOOSE i \in 1..Len(s) : s[i] = c /\ \A j \in 1..(i - 1) : s[j] # c
    ELSE 0

\* index of the last occurrence of character c in s, 0 when absent
LastIndexOf(s, c) ==
    IF \E i \in 1..Len(s) : s[i] = c
    THEN CHOOSE i \in 1..Len(s) : s[i] = c /\ \A j \in (i + 1)..Len(s) : s[j] # c
    ELSE 0

\* the letters that occur in the inputs (a to f also as hexadecimal digits)
Letters == {"a", "b", "c", "d", "e", "f", "h", "p", "s", "t", "x"}
Digits == {"0", "1", "2", "3", "4", "5", "6", "7", "8", "9"}
HexDigits == Digits \cup {"a", "b", "c", "d", "e", "f"}

----------------------------------------------------------------------------
(* net/url.Parse, restricted to strings without '?', '#', '@', '[' and     *)
(* control bytes (none of the inputs contains them)                        *)

\* url.getScheme: [ok, scheme, rest]
getScheme(raw) ==
    LET SchemeChar(i) == \/ raw[i] \in Letters
                         \/ (raw[i] \in Digits \cup {"+", "-", "."} /\ i > 1)
        stop == IF \E i \in 1..Len(raw) : ~SchemeChar(i)
                THEN CHOOSE i \in 1..Len(raw) :
                        ~SchemeChar(i) /\ \A j \in 1..(i - 1) : SchemeChar(j)
                ELSE 0
    IN  IF stop # 0 /\ raw[stop] = ":"
        THEN IF stop = 1
             THEN [ok |-> FALSE, scheme |-> <<>>, rest |-> <<>>]
             ELSE [ok |-> TRUE, scheme |-> SubSeq(raw, 1, stop - 1),
                   rest |-> SubSeq(raw, stop + 1, Len(raw))]
        ELSE [ok |-> TRUE, scheme |-> <<>>, rest |-> raw]

\* url.unescape: every '%' is followed by two hexadecimal digits
ValidEscapes(s) ==
    \A i \in 1..Len(s) :
        s[i] = "%" => (i + 2 <= Len(s) /\ s[i + 1] \in HexDigits /\ s[i + 2] \in HexDigits)

\* url.validOptionalPort: "" or ':' followed by digits only
validOptionalPort(p) ==
    p = <<>> \/ (p[1] = ":" /\ \A i \in 2..Len(p) : p[i] \in Digits)

\* url.parseHost
parseHostOK(host) ==
    LET i == LastIndexOf(host, ":")
    IN  /\ (i # 0 => validOptionalPort(SubSeq(host, i, Len(host))))
        /\ ValidEscapes(host)

\* url.Parse returns a nil error
UrlParseOK(raw) ==
    LET sch == getScheme(raw)
        rest == sch.rest
    IN  /\ sch.ok
        /\ IF ~HasPrefix(rest, Slash)
           THEN IF sch.scheme # <<>>
                THEN TRUE   \* opaque URL
                ELSE LET cut == IndexOf(rest, "/")
                         segment == IF cut = 0 THEN rest ELSE SubSeq(rest, 1, cut - 1)
                     IN  IndexOf(segment, ":") = 0 /\ ValidEscapes(rest)
           ELSE IF (sch.scheme # <<>> \/ ~HasPrefix(rest, <<"/", "/", "/">>))
                   /\ HasPrefix(rest, <<"/", "/">>)
                THEN LET auth0 == SubSeq(rest, 3, Len(rest))
                         cut == IndexOf(auth0, "/")
                         authority == IF cut = 0 THEN auth0 ELSE SubSeq(auth0, 1, cut - 1)
                         path == IF cut = 0 THEN <<>> ELSE SubSeq(auth0, cut, Len(auth0))
                     IN  parseHostOK(authority) /\ ValidEscapes(path)
                ELSE ValidEscapes(rest)

----------------------------------------------------------------------------
(* The Config struct and its defaults *)

\* getRootPath
getRootPath(goos) == IF goos = "windows" THEN "C:\\" ELSE "/"

\* HostnameOrBlank: os.Hostname(), the error dropped
HostnameOrBlank(e) == e.hostname

\* the literal without its MaxFileSize line
DefaultConfigValueNoSize(e) ==
    [MaxAgeInDays |-> 0,
     RootPaths |-> <<getRootPath(e.GOOS)>>,
     FileExtensions |-> <<>>,
     Server |-> <<>>,
     Sync |-> FALSE,
     Debug |-> FALSE,
     Threads |-> 1,
     MaxFileSize |-> 0,
     Proxy |-> "",
     CAs |-> <<>>,
     Insecure |-> FALSE,
     Logfile |-> "",
     Source |-> HostnameOrBlank(e),
     Template |-> "",
     Help |-> FALSE]

\* the composite literal assigned to DefaultConfig; fields it does not name
\* have Go's zero value
DefaultConfigValue(e) ==
    [MaxAgeInDays |-> 0,
     RootPaths |-> <<getRootPath(e.GOOS)>>,
     FileExtensions |-> <<>>,
     Server |-> <<>>,
     Sync |-> FALSE,
     Debug |-> FALSE,
     Threads |-> 1,
     MaxFileSize |-> 100,
     Proxy |-> "",
     CAs |-> <<>>,
     Insecure |-> FALSE,
     Logfile |-> "",
     Source |-> HostnameOrBlank(e),
     Template |-> "",
     Help |-> FALSE]

\* the yaml tags of Config: template key -> field
YamlField ==
    [k \in {"max-age", "path", "extensions", "thunderstorm-server",
            "upload-synchronous", "debug", "threads", "max-filesize",
            "http-proxy", "ca", "insecure", "logfile", "source"} |->
        CASE k = "max-age" -> "MaxAgeInDays"
          [] k = "path" -> "RootPaths"
          [] k = "extensions" -> "FileExtensions"
          [] k = "thunderstorm-server" -> "Server"
          [] k = "upload-synchronous" -> "Sync"
          [] k = "debug" -> "Debug"
          [] k = "threads" -> "Threads"
          [] k = "max-filesize" -> "MaxFileSize"
          [] k = "http-proxy" -> "Proxy"
          [] k = "ca" -> "CAs"
          [] k = "insecure" -> "Insecure"
          [] k = "logfile" -> "Logfile"
          [] k = "source" -> "Source"]

\* the flag tags of Config: fields settable from the command line only
FlagOnlyField ==
    [k \in {"template", "help"} |->
        IF k = "template" THEN "Template" ELSE "Help"]

\* the fields of type []string
ListFields == {"RootPaths", "FileExtensions", "CAs"}

----------------------------------------------------------------------------
(* The template loader *)

\* the files the process can name: a well-formed template, a file that is
\* not well-formed YAML, and (any other path) no file
FileExists(path) == path \in {"t.yml", "bad.yml"}
FileWellFormed(path) == path = "t.yml"
FileContent(path) ==
    IF path = "t.yml"
    THEN << [key |-> "threads", val |-> 2],
            [key |-> "max-filesize", val |-> 7],
            [key |-> "thunderstorm-server", val |-> HTTPS \o <<"t">>],
            [key |-> "unknown-key", val |-> TRUE] >>
    ELSE << >>

\* overlay of the keys present in the file, matched by canonical name
RECURSIVE Overlay(_, _)
Overlay(c, entries) ==
    IF entries = << >> THEN c
    ELSE LET e == Head(entries)
             c2 == IF e.key \in DOMAIN YamlField
                   THEN [c EXCEPT ![YamlField[e.key]] = e.val]
                   ELSE c
         IN  Overlay(c2, Tail(entries))

\* ReadTemplateFile(&config): [err, config]
ReadTemplateFile(c) ==
    IF c.Template = "" THEN [err |-> "", config |-> c]
    ELSE IF ~FileExists(c.Template) THEN [err |-> "TemplateReadError", config |-> c]
    ELSE IF ~FileWellFormed(c.Template) THEN [err |-> "TemplateParseError", config |-> c]
    ELSE [err |-> "", config |-> Overlay(c, FileContent(c.Template))]

----------------------------------------------------------------------------
(* The flag set *)

\* flag name -> field, for every field of Config
FlagField == [k \in DOMAIN YamlField \cup DOMAIN FlagOnlyField |->
                 IF k \in DOMAIN YamlField THEN YamlField[k] ELSE FlagOnlyField[k]]

\* flags.Parse over the tokens: a token with flag "" is a positional
\* argument, a token naming no registered flag is a parse error; a list flag
\* replaces the list at its first occurrence and appends afterwards
RECURSIVE ParseTokens(_, _, _)
ParseTokens(tokens, c, changed) ==
    IF tokens = << >> THEN [err |-> "", config |-> c]
    ELSE LET t == Head(tokens)
         IN  IF t.flag = "" THEN ParseTokens(Tail(tokens), c, changed)
             ELSE IF t.flag \notin DOMAIN FlagField
                  THEN [err |-> "unknown flag", config |-> c]
                  ELSE LET f == FlagField[t.flag]
                           c2 == IF f \in ListFields
                                 THEN IF f \in changed
                                      THEN [c EXCEPT ![f] = Append(@, t.val)]
                                      ELSE [c EXCEPT ![f] = <<t.val>>]
                                 ELSE [c EXCEPT ![f] = t.val]
                       IN  ParseTokens(Tail(tokens), c2, changed \cup {f})

\* CreateFlagset(&config) followed by flags.Parse(os.Args): [err, config]
ParseFlags(argv, c) == ParseTokens(argv, c, {})

----------------------------------------------------------------------------
(* Inputs *)

Prog == [flag |-> "", val |-> "collector"]

Envs == [GOOS : {"linux", "windows"}, hostname : {"", "host"}]

Prefixes == {<< >>, HTTP, HTTPS}
Bodies == {<< >>, <<"x">>, <<"x", "%">>}
Slashes(n) == [i \in 1..n |-> "/"]
ServerInputs == {p \o b \o Slashes(n) : p \in Prefixes, b \in Bodies, n \in 0..MaxSlashes}

RECURSIVE PathLists(_)
PathLists(n) ==
    IF n = 0 THEN {<< >>}
    ELSE PathLists(n - 1)
         \cup {Append(l, [flag |-> "path", val |-> v]) :
                 l \in {x \in PathLists(n - 1) : Len(x) = n - 1}, v \in {"/a"}}

\* a flag given at most once
Opt(flag, vals) == {<< >>} \cup {<< [flag |-> flag, val |-> v] >> : v \in vals}

----------------------------------------------------------------------------
(* ParseConfig *)

Usage == "Usage: collector [OPTION]..."
MsgServer == "Thunderstorm Server URL not specified"
MsgThreads == "Thread count must be > 0"
MsgMaxAge == "Maximum file age must be >= 0"
MsgMaxFileSize == "Maximum file size must be >= 0"
MsgPrefix == "Missing http:// or https:// prefix in Thunderstorm URL"
MsgURL == "URL for Thunderstorm is invalid"

Terminal == {"exited", "returned"}

\* variant: config refers to the package variable (config := &DefaultConfig)
ConfigStorageAlias == "DefaultConfig"
\* "var config = DefaultConfig" declares a struct value of its own
ConfigStorage == "config"

\* the value the name config denotes
Cfg == IF cfgAt = "config" THEN config ELSE DefaultConfig

\* an assignment through the name config
Assign(c) ==
    IF cfgAt = "config"
    THEN config' = c /\ UNCHANGED DefaultConfig
    ELSE DefaultConfig' = c /\ UNCHANGED config

\* fmt.Fprintln(os.Stderr, ...) (and flags.Usage()), then os.Exit(status)
Exit(status, what, lines) ==
    /\ pc' = "exited"
    /\ exitStatus' = status
    /\ outcome' = what
    /\ stderr' = stderr \o lines

Goto(label) ==
    /\ pc' = label
    /\ UNCHANGED <<stderr, exitStatus, outcome>>

Step(label) == steps' = Append(steps, label)

\* the conditions of the if statements, negated: the rule passes
\* variant: the no-arguments test left out
NeedHelpFlagOnly(c, argv) == c.Help
NeedHelp(c, argv) == c.Help \/ Len(argv) = 1
ServerGiven(c) == ~(c.Server = << >>)
\* variant: Threads < 0 in place of Threads < 1
ThreadsValidLoose(c) == ~(c.Threads < 0)
ThreadsValid(c) == ~(c.Threads < 1)
MaxAgeValid(c) == ~(c.MaxAgeInDays < 0)
\* variant: MaxFileSize < 0, as the printed message has it
MaxFileSizeValidLoose(c) == ~(c.MaxFileSize < 0)
MaxFileSizeValid(c) == ~(c.MaxFileSize < 1)
PrefixValid(c) == HasPrefix(c.Server, HTTP) \/ HasPrefix(c.Server, HTTPS)
URLValid(c) == UrlParseOK(c.Server)

\* config.Server = strings.TrimSuffix(config.Server, "/")
\* variant: no trimming
TrimServerNone(c) == c
TrimServer(c) == [c EXCEPT !.Server = TrimSuffix(c.Server, Slash)]

Declare ==
    /\ pc = "declare"
    /\ cfgAt' = ConfigStorage
    /\ config' = DefaultConfig
    /\ pc' = "template"
    /\ Step("declare")
    /\ UNCHANGED <<env, args, DefaultConfig, stderr, exitStatus, outcome,
                   flagged, run, first>>

LoadTemplate ==
    /\ pc = "template"
    /\ Step("template")
    /\ LET r == ReadTemplateFile(Cfg)
       IN  IF r.err # ""
           THEN Exit(1, "TemplateError", <<r.err>>) /\ UNCHANGED <<config, DefaultConfig>>
           ELSE Goto("flags") /\ Assign(r.config)
    /\ UNCHANGED <<env, args, cfgAt, flagged, run, first>>

ParseArgs ==
    /\ pc = "flags"
    /\ Step("flags")
    /\ LET r == ParseFlags(args, Cfg)
       IN  /\ Assign(r.config)
           /\ flagged' = r.config
           /\ IF r.err # ""
              THEN Exit(1, "FlagError", <<r.err, Usage>>)
              ELSE Goto("help")
    /\ UNCHANGED <<env, args, cfgAt, run, first>>

\* one if statement of the validation sequence: exit with the lines, or go on
Check(here, passes, lines, what, status, next) ==
    /\ pc = here
    /\ Step(here)
    /\ IF passes THEN Goto(next) ELSE Exit(status, what, lines)
    /\ UNCHANGED <<env, args, DefaultConfig, config, cfgAt, flagged, run, first>>

\* variant: the thread-count branch without its os.Exit(1)
CheckThreadsNoExit ==
    /\ pc = "threads"
    /\ Step("threads")
    /\ pc' = "maxage"
    /\ stderr' = IF ThreadsValid(Cfg) THEN stderr ELSE Append(stderr, MsgThreads)
    /\ UNCHANGED <<env, args, DefaultConfig, config, cfgAt, flagged, run, first,
                   exitStatus, outcome>>

CheckHelp == Check("help", ~NeedHelp(Cfg, args), <<Usage>>, "Help", 0, "server")
CheckServer == Check("server", ServerGiven(Cfg), <<MsgServer>>, "Rejected", 1, "threads")
CheckThreads == Check("threads", ThreadsValid(Cfg), <<MsgThreads>>, "Rejected", 1, "maxage")
CheckMaxAge == Check("maxage", MaxAgeValid(Cfg), <<MsgMaxAge>>, "Rejected", 1, "maxfilesize")
CheckMaxFileSize ==
    Check("maxfilesize", MaxFileSizeValid(Cfg), <<MsgMaxFileSize, Usage>>, "Rejected", 1, "trim")

Trim ==
    /\ pc = "trim"
    /\ Step("trim")
    /\ Assign(TrimServer(Cfg))
    /\ Goto("prefix")
    /\ UNCHANGED <<env, args, cfgAt, flagged, run, first>>

CheckPrefix == Check("prefix", PrefixValid(Cfg), <<MsgPrefix>>, "Rejected", 1, "url")
CheckURL == Check("url", URLValid(Cfg), <<MsgURL>>, "Rejected", 1, "return")

Return ==
    /\ pc = "return"
    /\ Step("return")
    /\ pc' = "returned"
    /\ outcome' = "Validated"
    /\ UNCHANGED <<env, args, DefaultConfig, config, cfgAt, stderr, exitStatus,
                   flagged, run, first>>

\* The same command line once more: ParseConfig called again by the same
\* process if it returned, a new process (package variables initialised
\* again) if it exited.
Rerun ==
    /\ pc \in Terminal
    /\ run = 1
    /\ run' = 2
    /\ first' = [outcome |-> outcome, exitStatus |-> exitStatus,
                 stderr |-> stderr, config |-> Cfg]
    /\ DefaultConfig' = IF pc = "returned" THEN DefaultConfig ELSE DefaultConfigValue(env)
    /\ config' = DefaultConfigValue(env)
    /\ flagged' = DefaultConfigValue(env)
    /\ cfgAt' = "config"
    /\ pc' = "declare"
    /\ stderr' = << >>
    /\ exitStatus' = -1
    /\ outcome' = "none"
    /\ steps' = << >>
    /\ UNCHANGED <<env, args>>

Init ==
    /\ env \in Envs
    /\ \E t \in Opt("template", {"t.yml"}),
          s \in Opt("thunderstorm-server", ServerInputs),
          r \in Opt("threads", {0, 2}),
          a \in Opt("max-age", {-1, 3}),
          m \in Opt("max-filesize", {0, 5}),
          p \in PathLists(MaxListFlags),
          h \in Opt("help", {TRUE}),
          b \in Opt("bogus", {TRUE}) :
            args = <<Prog>> \o t \o s \o r \o a \o m \o p \o h \o b
    /\ DefaultConfig = DefaultConfigValue(env)
    /\ config = DefaultConfigValue(env)
    /\ flagged = DefaultConfigValue(env)
    /\ cfgAt = "config"
    /\ pc = "declare"
    /\ stderr = << >>
    /\ exitStatus = -1
    /\ outcome = "none"
    /\ steps = << >>
    /\ run = 1
    /\ first = [outcome |-> "none", exitStatus |-> -1, stderr |-> << >>,
                config |-> DefaultConfigValue(env)]

Next ==
    \/ Declare
    \/ LoadTemplate
    \/ ParseArgs
    \/ CheckHelp
    \/ CheckServer
    \/ CheckThreads
    \/ CheckMaxAge
    \/ CheckMaxFileSize
    \/ Trim
    \/ CheckPrefix
    \/ CheckURL
    \/ Return
    \/ Rerun

Spec == Init /\ [][Next]_vars

----------------------------------------------------------------------------
(* Properties *)

Range(q) == {q[i] : i \in 1..Len(q)}
FlagGiven(name) == \E i \in 1..Len(args) : args[i].flag = name
IsPrefixOf(q, full) == Len(q) <= Len(full) /\ q = SubSeq(full, 1, Len(q))

Pipeline == <<"declare", "template", "flags", "help", "server", "threads",
              "maxage", "maxfilesize", "trim", "prefix", "url", "return">>
ValidationSteps == {"server", "threads", "maxage", "maxfilesize", "prefix", "url"}
ValidationMessages == {MsgServer, MsgThreads, MsgMaxAge, MsgMaxFileSize, MsgPrefix, MsgURL}
IsValidationMessage(l) == l \in ValidationMessages

\* the call got as far as the help test and went past it
ReachedValidation ==
    /\ pc \in Terminal
    /\ outcome \notin {"TemplateError", "FlagError"}
    /\ ~flagged.Help
    /\ Len(args) > 1

\* the diagnostic of the first rule, in the documented order, that the
\* configuration c violates; "none" when it violates none
FirstViolated(c) ==
    IF c.Server = << >> THEN MsgServer
    ELSE IF c.Threads < 1 THEN MsgThreads
    ELSE IF c.MaxAgeInDays < 0 THEN MsgMaxAge
    ELSE IF c.MaxFileSize < 1 THEN MsgMaxFileSize
    ELSE IF ~(HasPrefix(c.Server, HTTP) \/ HasPrefix(c.Server, HTTPS)) THEN MsgPrefix
    ELSE IF ~UrlParseOK(c.Server) THEN MsgURL
    ELSE "none"

\* C1: a configuration that reaches validation and violates one or more of
\* the six rules makes ParseConfig exit with status 1, and the only rule
\* diagnostic printed is that of the first violated rule in the order Server
\* non-empty, Threads, MaxAgeInDays, MaxFileSize, prefix, URL syntax.
C1_FirstViolatedRuleReported ==
    (ReachedValidation /\ FirstViolated(flagged) # "none") =>
        /\ pc = "exited"
        /\ exitStatus = 1
        /\ SelectSeq(stderr, IsValidationMessage) = <<FirstViolated(flagged)>>
        /\ stderr[1] = FirstViolated(flagged)

\* C1 witness: --threads 0 --max-filesize 0 --thunderstorm-server https://x
\* is reported by the thread-count rule
C1_Witness ==
    /\ pc = "exited"
    /\ flagged.Server = HTTPS \o <<"x">>
    /\ flagged.Threads = 0
    /\ flagged.MaxFileSize = 0
    /\ stderr = <<MsgThreads>>

\* C2: every Configuration ParseConfig returns has a non-empty Server with
\* an http:// or https:// prefix that parses as a URL, Threads >= 1,
\* MaxAgeInDays >= 0 and MaxFileSize >= 1.
C2_ReturnedConfigIsValid ==
    outcome = "Validated" =>
        /\ Cfg.Server # << >>
        /\ (HasPrefix(Cfg.Server, HTTP) \/ HasPrefix(Cfg.Server, HTTPS))
        /\ UrlParseOK(Cfg.Server)
        /\ Cfg.Threads >= 1
        /\ Cfg.MaxAgeInDays >= 0
        /\ Cfg.MaxFileSize >= 1

\* C2 witness: a returned Configuration mixing flag values and defaults,
\* with a template named on the command line
C2_Witness ==
    /\ pc = "returned"
    /\ FlagGiven("template")
    /\ Cfg.Threads = 2
    /\ Cfg.MaxAgeInDays = 3
    /\ Cfg.MaxFileSize = 100

\* C3: every Configuration ParseConfig returns has a Server that does not
\* end with '/', whatever Server value the user supplied.
C3_NoTrailingSlash ==
    outcome = "Validated" => ~HasSuffix(Cfg.Server, Slash)

\* C4: when template loading and flag parsing succeed and Help is set or no
\* argument was supplied, ParseConfig prints the usage text and exits with
\* status 0 without evaluating any validation rule, whatever the values of
\* Server, Threads, MaxAgeInDays and MaxFileSize.
C4_HelpShortCircuit ==
    (/\ pc \in Terminal
     /\ outcome \notin {"TemplateError", "FlagError"}
     /\ (flagged.Help \/ Len(args) = 1)) =>
        /\ pc = "exited"
        /\ exitStatus = 0
        /\ stderr = <<Usage>>
        /\ Range(steps) \cap ValidationSteps = {}

\* C4 witness: help requested with a configuration that no rule would accept
C4_Witness ==
    /\ pc = "exited"
    /\ exitStatus = 0
    /\ flagged.Help
    /\ flagged.Server = << >>
    /\ flagged.Threads = 0
    /\ flagged.MaxAgeInDays = -1
    /\ flagged.MaxFileSize = 0

\* C5: every call ends in exactly one terminal outcome which determines the
\* exit status: 1 for a template error, a flag error or a failed rule, 0 for
\* usage on help or no arguments, and a return (no exit) only when none of
\* these occurred; nothing runs after a failure.
C5_OneTerminalOutcome ==
    /\ IsPrefixOf(steps, Pipeline)
    /\ pc \notin Terminal => (outcome = "none" /\ exitStatus = -1 /\ stderr = << >>)
    /\ pc \in Terminal =>
        /\ outcome \in {"TemplateError", "FlagError", "Help", "Rejected", "Validated"}
        /\ (outcome \in {"TemplateError", "FlagError", "Rejected"}) <=> (exitStatus = 1)
        /\ (outcome = "Help") <=> (exitStatus = 0)
        /\ (outcome = "Validated") <=> (exitStatus = -1)
        /\ (outcome = "Validated") <=> (pc = "returned")
        /\ outcome = "TemplateError" => steps = SubSeq(Pipeline, 1, 2)
        /\ outcome = "FlagError" => (steps = SubSeq(Pipeline, 1, 3) /\ FlagGiven("bogus"))
        /\ outcome = "Help" =>
              (steps = SubSeq(Pipeline, 1, 4) /\ (FlagGiven("help") \/ Len(args) = 1))
        /\ outcome = "Rejected" =>
              /\ steps[Len(steps)] \in ValidationSteps
              /\ Len(SelectSeq(stderr, IsValidationMessage)) = 1
        /\ outcome = "Validated" =>
              /\ steps = Pipeline
              /\ stderr = << >>
              /\ ~FlagGiven("bogus") /\ ~FlagGiven("help") /\ Len(args) > 1
              /\ flagged.Server # << >> /\ flagged.Threads >= 1
              /\ flagged.MaxAgeInDays >= 0 /\ flagged.MaxFileSize >= 1

\* C5 witness: a flag error ends the call with status 1 before the help test
\* and before any rule
C5_Witness ==
    /\ pc = "exited"
    /\ outcome = "FlagError"
    /\ exitStatus = 1
    /\ steps = <<"declare", "template", "flags">>
    /\ FlagGiven("help")
    /\ FlagGiven("threads")

\* C6: when the command line names a valid template file, every recognized
\* key of the file that no flag sets has the template's value in the
\* Configuration ParseConfig returns.
C6_TemplateApplied ==
    (pc = "returned" /\ Cfg.Template = "t.yml") =>
        \A i \in 1..Len(FileContent("t.yml")) :
            LET e == FileContent("t.yml")[i]
            IN  (e.key \in DOMAIN YamlField /\ ~FlagGiven(e.key)) =>
                    Cfg[YamlField[e.key]] = e.val

\* a Server value as the data model describes it: non-empty, no trailing
\* slash, http(s) prefix, parses as a URL
ValidServer(v) ==
    /\ v # << >>
    /\ ~HasSuffix(v, Slash)
    /\ (HasPrefix(v, HTTP) \/ HasPrefix(v, HTTPS))
    /\ UrlParseOK(v)

\* C7: with --thunderstorm-server <valid value> as the only flag and no
\* template, ParseConfig returns Server as supplied, Threads = 1,
\* MaxFileSize = 100, RootPaths = [filesystem root], MaxAgeInDays = 0 and
\* every other field at its default; validation changes no field but Server.
C7_ServerOnlyDefaults ==
    (/\ pc \in Terminal
     /\ Len(args) = 2
     /\ args[2].flag = "thunderstorm-server"
     /\ ValidServer(args[2].val)) =>
        /\ pc = "returned"
        /\ Cfg = [MaxAgeInDays |-> 0,
                  RootPaths |-> <<IF env.GOOS = "windows" THEN "C:\\" ELSE "/">>,
                  FileExtensions |-> << >>,
                  Server |-> args[2].val,
                  Sync |-> FALSE,
                  Debug |-> FALSE,
                  Threads |-> 1,
                  MaxFileSize |-> 100,
                  Proxy |-> "",
                  CAs |-> << >>,
                  Insecure |-> FALSE,
                  Logfile |-> "",
                  Source |-> env.hostname,
                  Template |-> "",
                  Help |-> FALSE]
        /\ \A f \in DOMAIN Cfg \ {"Server"} : Cfg[f] = flagged[f]

\* C7 witness: --thunderstorm-server https://x alone, returned
C7_Witness ==
    /\ pc = "returned"
    /\ args = <<Prog, [flag |-> "thunderstorm-server", val |-> HTTPS \o <<"x">>]>>
    /\ Cfg.Server = HTTPS \o <<"x">>

\* C8: the same defaults, template and arguments give the same outcome, exit
\* status, output and Configuration on a second call, and DefaultConfig has
\* the value after a call that it had before.
C8_DeterministicAndDefaultsUntouched ==
    /\ pc \in Terminal => DefaultConfig = DefaultConfigValue(env)
    /\ (pc \in Terminal /\ run = 2) =>
        /\ outcome = first.outcome
        /\ exitStatus = first.exitStatus
        /\ stderr = first.stderr
        /\ Cfg = first.config

\* C8 witness: a second call that returned, after flags overrode a list and
\* the Server of the defaults
C8_Witness ==
    /\ run = 2
    /\ pc = "returned"
    /\ first.outcome = "Validated"
    /\ FlagGiven("path")
    /\ Cfg.RootPaths = <<"/a">>
    /\ DefaultConfig.Server = << >>

\* C9 as stated: the prefix rule and the URL rule judge the Server value as
\* flag parsing left it, so acceptance does not depend on the trimming.
C9_AcceptanceIgnoresTrim ==
    (pc \in Terminal /\ "trim" \in Range(steps)) =>
        ((outcome = "Validated") <=>
            /\ (HasPrefix(flagged.Server, HTTP) \/ HasPrefix(flagged.Server, HTTPS))
            /\ UrlParseOK(flagged.Server))

\* C9 amended: the trailing slash is trimmed once the first four rules have
\* passed and before the prefix rule and the URL rule, which judge the
\* trimmed value; a Server whose prefix does not survive the trimming is
\* rejected by the prefix rule.
C9_TrimBeforePrefixRule ==
    /\ IsPrefixOf(steps, Pipeline)
    /\ (pc \in Terminal /\ "trim" \in Range(steps)) =>
        LET trimmed == TrimSuffix(flagged.Server, Slash)
            prefixed == HasPrefix(trimmed, HTTP) \/ HasPrefix(trimmed, HTTPS)
        IN  /\ Cfg.Server = trimmed
            /\ (outcome = "Validated") <=> (prefixed /\ UrlParseOK(trimmed))
            /\ ~prefixed => stderr = <<MsgPrefix>>
            /\ (prefixed /\ ~UrlParseOK(trimmed)) => stderr = <<MsgURL>>

\* C9 witness: --thunderstorm-server http:// has the prefix untrimmed and is
\* rejected by the prefix rule
C9_Witness ==
    /\ pc = "exited"
    /\ flagged.Server = HTTP
    /\ Cfg.Server = <<"h", "t", "t", "p", ":", "/">>
    /\ stderr = <<MsgPrefix>>

\* C10: the usage text is printed exactly when the call ends in a flag
\* error, a help request or a no-arguments invocation; a template error or a
\* failed rule prints its one diagnostic line and no usage text.
C10_UsageOnlyOnFlagErrorOrHelp ==
    pc \in Terminal =>
        /\ (Usage \in Range(stderr)) <=> (outcome \in {"FlagError", "Help"})
        /\ outcome \in {"TemplateError", "Rejected"} => Len(stderr) = 1

====
